---- MODULE Spec2Model ----
(***************************************************************************)
(* Model of the asst hotel application: the authentication blueprint       *)
(* (asst/auth.py) and the feedback blueprint (asst/views/feedback.py).     *)
(* Every HTTP request is one atomic step.  The feedback workflow state is  *)
(* the set of module-level globals of feedback.py, shared by all sessions. *)
(***************************************************************************)
EXTENDS Integers, Sequences, FiniteSets, TLC

\* ------------------------------------------------------------- bounds
\* caps on the rows of the writes_Review table, one per specification
MaxReviews == 2
MaxFlowReviews == 1
MaxSharedReviews == 1

\* the browser sessions (cookie jars) that issue requests
Sessions == {"s1", "s2"}

\* ------------------------------------------------------------- values
\* a name that is not bound (globals rtype/bftype/stype/rate before the
\* first assignment), an absent session cookie, the anonymous user
Undefined == "<undefined>"
NoSession == "<none>"
Anonymous == [Email |-> "<anonymous>", password |-> <<>>, role |-> "", CID |-> "0",
              is_authenticated |-> FALSE]

\* werkzeug.security: a hash is checked by recomputation, never by equality
\* with the clear text
generate_password_hash(pw) == <<"pbkdf2", pw>>
\* faulty variant: tests that a hash is stored, not that the password fits
check_password_truthy(hash, pw) == hash # <<>>
check_password_hash(hash, pw) == hash = generate_password_hash(pw)

\* the User table (rows in storage order)
UserTable ==
  << [Email |-> "ann@x", password |-> generate_password_hash("pwA"),
      role |-> "customer", CID |-> "1", is_authenticated |-> TRUE],
     [Email |-> "bob@x", password |-> generate_password_hash("pwB"),
      role |-> "admin", CID |-> "2", is_authenticated |-> TRUE],
     [Email |-> "eve@x", password |-> generate_password_hash("pwA"),
      role |-> "chef", CID |-> "3", is_authenticated |-> TRUE] >>

UserEmails == { UserTable[i].Email : i \in DOMAIN UserTable }
Emails == UserEmails \cup {"nobody@x"}
Passwords == {"pwA", "pwB"}

\* the Reservation, Room, Inc_Breakfast and Cont_Service tables
Reservation ==
  << [InvoiceNo |-> "1", CID |-> "1", Room_no |-> "101", HotelID |-> "10"],
     [InvoiceNo |-> "2", CID |-> "2", Room_no |-> "202", HotelID |-> "20"] >>
Room ==
  << [HotelID |-> "10", Room_no |-> "101", Type |-> "single"],
     [HotelID |-> "20", Room_no |-> "202", Type |-> "suite"] >>
Inc_Breakfast ==
  << [InvoiceNo |-> "1", BType |-> "continental", HotelID |-> "10"],
     [InvoiceNo |-> "2", BType |-> "american", HotelID |-> "20"] >>
Cont_Service ==
  << [InvoiceNo |-> "1", sType |-> "spa", HotelID |-> "10"],
     [InvoiceNo |-> "1", sType |-> "spa", HotelID |-> "10"],
     [InvoiceNo |-> "2", sType |-> "laundry", HotelID |-> "20"] >>

\* Model.select().where(cond) is SelectSeq(table, cond): the rows of a table
\* that satisfy a condition, in storage order

\* ------------------------------------------------------------- state
VARIABLES
  session,        \* session[s]: the user id flask-login keeps in the cookie
  inv_no, rrate, bfrate, srate, ReviewType, rtype, bftype, stype, rate,
  rno, hid, ReviewIDtest,          \* module globals of feedback.py
  writes_Review,                   \* Review rows, in insertion order
  RoomReview_evaluates, BreakfastReview_asseses, ServiceReview_rates,
  resp,           \* the last request and its response
  submitted,      \* history: submitted[s] is the email of the login that
                  \* opened s's current session
  picked,         \* history: picked[e] is <<id>>, the invoice of the latest
                  \* pick_res request of user e (<<>>: none yet)
  posted,         \* history: posted[e] is <<data>>, the payload of the latest
                  \* rating request of user e if it succeeded (<<>>: none yet,
                  \* or the latest one ended with "Error")
  ratedBy         \* history: <<e>>, the user whose rating request last
                  \* assigned ReviewType and the sub-types (<<>>: none yet)

globals == <<inv_no, rrate, bfrate, srate, ReviewType, rtype, bftype, stype,
             rate, rno, hid, ReviewIDtest>>
tables == <<writes_Review, RoomReview_evaluates, BreakfastReview_asseses,
            ServiceReview_rates>>
history == <<picked, posted, ratedBy>>
vars == <<session, submitted, history, globals, tables, resp>>

\* ------------------------------------------------------------- auth.py
\* user_loader: the rows with that Email, the first one returned; <<>> stands
\* for the None of "no such user"
user_loader(email) ==
  LET users == SelectSeq(UserTable, LAMBDA u : u.Email = email)
  IN  IF Len(users) > 0 THEN <<users[1]>> ELSE <<>>

\* flask_login.current_user of a request of session s
current_user(s) ==
  IF session[s] = NoSession THEN Anonymous
  ELSE LET loaded == user_loader(session[s])
       IN  IF loaded = <<>> THEN Anonymous ELSE loaded[1]

\* login_manager.unauthorized() -> unauth()
unauth(s, route) ==
  [s |-> s, route |-> route, handler |-> "unauth", status |-> 401,
   page |-> "unauthorized.html", flash |-> <<>>, error |-> "", body |-> <<>>]

\* a response produced by a view function
Response(s, route, handler, status, page, flash, body) ==
  [s |-> s, route |-> route, handler |-> handler, status |-> status,
   page |-> page, flash |-> flash, error |-> "", body |-> body]

\* an exception that leaves the view function: Flask answers 500
Unhandled(s, route, handler, exc) ==
  [s |-> s, route |-> route, handler |-> handler, status |-> 500,
   page |-> "", flash |-> <<>>, error |-> exc, body |-> <<>>]

\* the role argument of require_role: a list of names or one name
RoleList(names) == [isList |-> TRUE, val |-> names]
RoleStr(name) == [isList |-> FALSE, val |-> name]

\* faulty variant: the role comparison is left out
require_role_any(role, user) == user.is_authenticated
\* faulty variant: login_required is left out
require_role_nologin(role, user) ==
  \/ ~user.is_authenticated
  \/ IF role.isList THEN user.role \in role.val ELSE user.role = role.val
\* require_role(role)(func): TRUE when wrapper calls func, FALSE when it
\* answers login_manager.unauthorized()
require_role(role, user) ==
  /\ user.is_authenticated                       \* flask_login.login_required
  /\ IF role.isList /\ user.role \in role.val THEN TRUE
     ELSE IF ~role.isList THEN user.role = role.val
     ELSE FALSE

\* faulty variant: the customer id is used as the session id
get_id_cid(user) == user.CID
\* the id flask-login stores for a user: login sets user.id = user.Email and
\* UserMixin.get_id returns user.id
get_id(user) == user.Email

\* POST/GET /login
login(s, method, form) ==
  LET users == IF "email" \in DOMAIN form
               THEN SelectSeq(UserTable, LAMBDA u : u.Email = form.email) ELSE <<>>
      failed(msg) == Response(s, "login", "login", 401, "login.html", msg, <<>>)
  IN
  /\ UNCHANGED <<history, globals, tables>>
  /\ IF current_user(s).is_authenticated
       THEN /\ resp' = Response(s, "login", "login", 302, "index", <<>>, <<>>)
            /\ UNCHANGED <<session, submitted>>
     ELSE IF method = "GET"
       THEN /\ resp' = Response(s, "login", "login", 200, "login.html", <<>>, <<>>)
            /\ UNCHANGED <<session, submitted>>
     ELSE IF "email" \notin DOMAIN form
       THEN /\ resp' = failed(<<"Registration failed", "email">>)
            /\ UNCHANGED <<session, submitted>>
     ELSE IF Len(users) <= 0
       THEN /\ resp' = Response(s, "login", "login", 200, "login.html",
                                 <<"Unable to login user", form.email>>, <<>>)
            /\ UNCHANGED <<session, submitted>>
     ELSE IF "pw" \notin DOMAIN form
       THEN /\ resp' = failed(<<"Registration failed", "pw">>)
            /\ UNCHANGED <<session, submitted>>
     ELSE IF check_password_hash(users[1].password, form.pw)
       THEN \* login_user(user)
            /\ session' = [session EXCEPT ![s] = get_id(users[1])]
            /\ submitted' = [submitted EXCEPT ![s] = form.email]
            /\ resp' = Response(s, "login", "login", 302, "index", <<>>, <<>>)
     ELSE /\ resp' = failed(<<"Unable to login user", form.email>>)
          /\ UNCHANGED <<session, submitted>>

\* GET /logout
logout(s) ==
  /\ session' = [session EXCEPT ![s] = NoSession]
  /\ submitted' = [submitted EXCEPT ![s] = NoSession]
  /\ resp' = Response(s, "logout", "logout", 200, "login.html",
                       <<"Successfully logged out">>, <<>>)
  /\ UNCHANGED <<history, globals, tables>>

\* the documented single-role route: @require_role('admin') def view_dash()
DashboardRole == RoleStr("admin")

view_dash(s) ==
  /\ resp' = IF require_role(DashboardRole, current_user(s))
             THEN Response(s, "admin-dashboard", "view_dash", 200, "dashboard", <<>>, <<>>)
             ELSE unauth(s, "admin-dashboard")
  /\ UNCHANGED <<session, submitted, history, globals, tables>>

\* ------------------------------------------------------------- feedback.py
\* the role list of every feedback route
FeedbackRoles == RoleList({"admin", "manager", "customer"})

\* GET /feedback/
feedback(s) ==
  /\ resp' = IF require_role(FeedbackRoles, current_user(s))
             THEN Response(s, "feedback", "feedback", 200, "feedback/index.html", <<>>, <<>>)
             ELSE unauth(s, "feedback")
  /\ UNCHANGED <<session, submitted, history, globals, tables>>

\* faulty variant: the customer id is left out of the where clause
ReservationsOf_any(cid, inv) ==
  SelectSeq(Reservation, LAMBDA r : r.InvoiceNo = inv)
\* the rows pick_res shows and the reservation rows it takes rno/hid from
ReservationsOf(cid, inv) ==
  SelectSeq(Reservation, LAMBDA r : r.CID = cid /\ r.InvoiceNo = inv)
ServicesOf(inv) == SelectSeq(Cont_Service, LAMBDA x : x.InvoiceNo = inv)
BreakfastsOf(inv) == SelectSeq(Inc_Breakfast, LAMBDA x : x.InvoiceNo = inv)

\* faulty variant: the invoice is stored only when the user has a reservation
\* with it
pick_res_owned(s, id) ==
  LET user == current_user(s)
      reserv == ReservationsOf(user.CID, id)
  IN
  IF require_role(FeedbackRoles, user)
  THEN /\ inv_no' = IF Len(reserv) > 0 THEN id ELSE inv_no
       /\ rno' = IF Len(reserv) > 0 THEN reserv[Len(reserv)].Room_no ELSE rno
       /\ hid' = IF Len(reserv) > 0 THEN reserv[Len(reserv)].HotelID ELSE hid
       /\ resp' = Response(s, "pick_res", "pick_res", 200, "feedback/make_rev.html", <<>>,
                           <<reserv, ServicesOf(id), BreakfastsOf(id)>>)
       /\ picked' = [picked EXCEPT ![user.Email] = <<id>>]
       /\ UNCHANGED <<session, submitted, posted, ratedBy, rrate, bfrate, srate,
                      ReviewType, rtype, bftype, stype, rate, ReviewIDtest, tables>>
  ELSE /\ resp' = unauth(s, "pick_res")
       /\ UNCHANGED <<session, submitted, history, globals, tables>>
\* GET /feedback/pick_res?id=INV_NO
pick_res(s, id) ==
  LET user == current_user(s)
      reserv == ReservationsOf(user.CID, id)
  IN
  IF require_role(FeedbackRoles, user)
  THEN /\ inv_no' = id
       /\ rno' = IF Len(reserv) > 0 THEN reserv[Len(reserv)].Room_no ELSE rno
       /\ hid' = IF Len(reserv) > 0 THEN reserv[Len(reserv)].HotelID ELSE hid
       /\ resp' = Response(s, "pick_res", "pick_res", 200, "feedback/make_rev.html", <<>>,
                           <<reserv, ServicesOf(id), BreakfastsOf(id)>>)
       /\ picked' = [picked EXCEPT ![user.Email] = <<id>>]
       /\ UNCHANGED <<session, submitted, posted, ratedBy, rrate, bfrate, srate,
                      ReviewType, rtype, bftype, stype, rate, ReviewIDtest, tables>>
  ELSE /\ resp' = unauth(s, "pick_res")
       /\ UNCHANGED <<session, submitted, history, globals, tables>>

\* the keys of the JSON body of a rating request
RatingKeys == {"radioValue", "ReviewType", "rootype", "breakftype", "servtype"}
\* faulty variant: the posted rating is stored under every category
get_rating_and_global_all(s, data) ==
  LET gotAll == RatingKeys \subseteq DOMAIN data IN
  IF require_role(FeedbackRoles, current_user(s))
  THEN /\ rate' = IF gotAll THEN data.radioValue ELSE rate
       /\ rrate' = IF gotAll THEN data.radioValue ELSE rrate
       /\ bfrate' = IF gotAll THEN data.radioValue ELSE bfrate
       /\ srate' = IF gotAll THEN data.radioValue ELSE srate
       /\ ReviewType' = IF gotAll THEN data.ReviewType ELSE ReviewType
       /\ rtype' = IF gotAll THEN data.rootype ELSE rtype
       /\ bftype' = IF gotAll THEN data.breakftype ELSE bftype
       /\ stype' = IF gotAll THEN data.servtype ELSE stype
       /\ resp' = IF gotAll
                  THEN Response(s, "rating", "get_rating_and_global", 200, "json", <<>>,
                                <<(<<data.ReviewType>>)>>)
                  ELSE Response(s, "rating", "get_rating_and_global", 500, "Error", <<>>, <<>>)
       /\ posted' = [posted EXCEPT ![current_user(s).Email] =
                                      IF gotAll THEN <<data>> ELSE <<>>]
       /\ ratedBy' = IF gotAll THEN <<current_user(s).Email>> ELSE ratedBy
       /\ UNCHANGED <<session, submitted, picked, inv_no, rno, hid, ReviewIDtest, tables>>
  ELSE /\ resp' = unauth(s, "rating")
       /\ UNCHANGED <<session, submitted, history, globals, tables>>
\* POST /feedback/rating with JSON body data (a record; a key may be missing).
\* The assignments run in source order up to the first missing key.
get_rating_and_global(s, data) ==
  LET has(k) == k \in DOMAIN data
      gotRate == has("radioValue")
      gotType == gotRate /\ has("ReviewType")
      gotAll  == gotType /\ has("rootype") /\ has("breakftype") /\ has("servtype")
  IN
  IF require_role(FeedbackRoles, current_user(s))
  THEN /\ rate' = IF gotRate THEN data.radioValue ELSE rate
       /\ rrate' = IF gotType /\ data.ReviewType = 1 THEN data.radioValue ELSE rrate
       /\ bfrate' = IF gotType /\ data.ReviewType = 2 THEN data.radioValue ELSE bfrate
       /\ srate' = IF gotType /\ data.ReviewType = 3 THEN data.radioValue ELSE srate
       /\ ReviewType' = IF gotAll THEN data.ReviewType ELSE ReviewType
       /\ rtype' = IF gotAll THEN data.rootype ELSE rtype
       /\ bftype' = IF gotAll THEN data.breakftype ELSE bftype
       /\ stype' = IF gotAll THEN data.servtype ELSE stype
       /\ resp' = IF gotAll
                  THEN Response(s, "rating", "get_rating_and_global", 200, "json", <<>>,
                                <<(<<data.ReviewType>>)>>)
                  ELSE Response(s, "rating", "get_rating_and_global", 500, "Error", <<>>, <<>>)
       /\ posted' = [posted EXCEPT ![current_user(s).Email] =
                                      IF gotAll THEN <<data>> ELSE <<>>]
       /\ ratedBy' = IF gotAll THEN <<current_user(s).Email>> ELSE ratedBy
       /\ UNCHANGED <<session, submitted, picked, inv_no, rno, hid, ReviewIDtest, tables>>
  ELSE /\ resp' = unauth(s, "rating")
       /\ UNCHANGED <<session, submitted, history, globals, tables>>

\* the list load_Res returns: rmtype keeps its value from the previous
\* reservation when a reservation's room has no Room row
RECURSIVE ReservList(_, _)
ReservList(rows, rmtype) ==
  IF rows = <<>> THEN <<>>
  ELSE LET r == Head(rows)
           rts == SelectSeq(Room, LAMBDA rt : rt.Room_no = r.Room_no)
           t == IF Len(rts) > 0 THEN rts[Len(rts)].Type ELSE rmtype
       IN  <<(<<r.HotelID, t, r.Room_no, r.InvoiceNo>>)>> \o ReservList(Tail(rows), t)

\* faulty variant: the loop variable invoic_no is the global inv_no
get_reserv_sel(s, data) ==
  LET user == current_user(s)
      rows == SelectSeq(Reservation, LAMBDA r : r.CID = user.CID)
      ran == require_role(FeedbackRoles, user) /\ "RevType" \in DOMAIN data
  IN
  /\ resp' = IF ~require_role(FeedbackRoles, user) THEN unauth(s, "load_Res")
             ELSE IF "RevType" \notin DOMAIN data
               THEN Response(s, "load_Res", "get_reserv", 500, "Error", <<>>, <<>>)
             ELSE Response(s, "load_Res", "get_reserv", 200, "json", <<>>,
                    ReservList(rows, "none"))
  /\ inv_no' = IF ran /\ Len(rows) > 0 THEN rows[Len(rows)].InvoiceNo ELSE inv_no
  /\ UNCHANGED <<session, submitted, history, rrate, bfrate, srate, ReviewType, rtype,
                 bftype, stype, rate, rno, hid, ReviewIDtest, tables>>
\* POST /feedback/load_Res with JSON body data
get_reserv(s, data) ==
  LET user == current_user(s) IN
  /\ resp' = IF ~require_role(FeedbackRoles, user) THEN unauth(s, "load_Res")
             ELSE IF "RevType" \notin DOMAIN data
               THEN Response(s, "load_Res", "get_reserv", 500, "Error", <<>>, <<>>)
             ELSE Response(s, "load_Res", "get_reserv", 200, "json", <<>>,
                    ReservList(SelectSeq(Reservation, LAMBDA r : r.CID = user.CID), "none"))
  /\ UNCHANGED <<session, submitted, history, globals, tables>>

\* ---- Review recording (asst.models.review and the three link models)
\* create_review: one new row, its ReviewID assigned on insert
create_review(rating, text, cid, inv) ==
  Append(writes_Review,
         [ReviewID |-> Len(writes_Review) + 1, Rating |-> rating,
          TextComment |-> text, CID |-> cid, InvoiceNo |-> inv])

\* create_rmreview / create_brkreview / create_servreview: one new link row
\* holding the three arguments
create_link(table, reviewId, target, hotel) ==
  Append(table, [ReviewID |-> reviewId, Target |-> target, HotelID |-> hotel])

\* ---- submit
\* the form field, the stored sub-type and the stored rating of a category
DescriptionField(k) ==
  CASE k = 1 -> "description" [] k = 2 -> "description2" [] k = 3 -> "description3"
\* faulty variant: the room rating is used for every category
CategoryRate_room(k) == rrate
CategoryRate(k) == CASE k = 1 -> rrate [] k = 2 -> bfrate [] k = 3 -> srate

\* the line items of the reservations q that carry the stored sub-type:
\* how often the innermost "if" of rreview's verification loops is true
\* faulty variant: the sub-type comparison is left out
MatchCount_anytype(k, reservs) == Len(reservs)
\* faulty variant: an invoice that already has a Review counts as not ordered
MatchCount_fresh(k, reservs) ==
  IF \E i \in DOMAIN writes_Review : writes_Review[i].InvoiceNo = inv_no THEN 0
  ELSE Len(reservs)
MatchCount(k, reservs) ==
  Cardinality(
    { p \in (DOMAIN reservs) \X
             (CASE k = 1 -> DOMAIN Room [] k = 2 -> DOMAIN Inc_Breakfast
                [] k = 3 -> DOMAIN Cont_Service) :
        CASE k = 1 -> /\ Room[p[2]].HotelID = reservs[p[1]].HotelID
                      /\ Room[p[2]].Room_no = reservs[p[1]].Room_no
                      /\ Room[p[2]].Type = rtype
          [] k = 2 -> /\ Inc_Breakfast[p[2]].InvoiceNo = inv_no
                      /\ Inc_Breakfast[p[2]].BType = bftype
          [] k = 3 -> /\ Cont_Service[p[2]].InvoiceNo = inv_no
                      /\ Cont_Service[p[2]].sType = stype })

\* faulty variant: the room link's argument is used for every category
LinkTarget_rno(k) == rno
\* the second argument of the link insert of a category
LinkTarget(k) == CASE k = 1 -> rno [] k = 2 -> bftype [] k = 3 -> stype

\* the ids the re-query (Rating, TextComment, InvoiceNo) iterates over; the
\* select has no ORDER BY, so any of them can be the last one assigned
\* faulty variant: the re-query matches no row and ReviewIDtest keeps its value
Requery_stale(reviews, rating, text, inv) == {ReviewIDtest}
Requery(reviews, rating, text, inv) ==
  { reviews[i].ReviewID : i \in { j \in DOMAIN reviews :
       /\ reviews[j].Rating = rating
       /\ reviews[j].TextComment = text
       /\ reviews[j].InvoiceNo = inv } }

\* faulty variant: the two inserts run in one transaction that a failed link
\* insert rolls back
rreview_atomic(s, form, fail) ==
  LET user == current_user(s)
      cid == user.CID
      k == ReviewType
      active == k \in {1, 2, 3}
      SCounter == IF active /\ DescriptionField(k) \in DOMAIN form
                  THEN MatchCount(k, ReservationsOf(cid, inv_no)) ELSE 0
      Text == form[DescriptionField(k)]
      created == create_review(CategoryRate(k), Text, cid, inv_no)
  IN
  IF ~require_role(FeedbackRoles, user)
  THEN /\ resp' = unauth(s, "success")
       /\ UNCHANGED <<session, submitted, history, globals, tables>>
  ELSE IF rtype = Undefined
  THEN \* print(str(rtype)) before any try block
       /\ resp' = Unhandled(s, "success", "rreview", "NameError")
       /\ UNCHANGED <<session, submitted, history, globals, tables>>
  ELSE IF SCounter = 0
  THEN /\ resp' = Response(s, "success", "rreview", 200, "feedback/index.html",
              <<"error, please review only for things that were actually ordered.">>, <<>>)
       /\ UNCHANGED <<session, submitted, history, globals, tables>>
  ELSE IF fail = "review"
  THEN /\ resp' = Unhandled(s, "success", "rreview", "create_review")
       /\ UNCHANGED <<session, submitted, history, globals, tables>>
  ELSE /\ writes_Review' = IF fail = "link" THEN writes_Review ELSE created
       /\ ReviewIDtest' \in IF fail = "link" THEN {ReviewIDtest}
                             ELSE Requery(created, CategoryRate(k), Text, inv_no)
       /\ IF fail = "link"
          THEN /\ resp' = Unhandled(s, "success", "rreview", "create_link")
               /\ UNCHANGED <<RoomReview_evaluates, BreakfastReview_asseses,
                              ServiceReview_rates>>
          ELSE /\ resp' = Response(s, "success", "rreview", 200, "feedback/success.html",
                                   <<>>, <<>>)
               /\ RoomReview_evaluates' =
                    IF k = 1 THEN create_link(RoomReview_evaluates, ReviewIDtest', LinkTarget(1), hid)
                    ELSE RoomReview_evaluates
               /\ BreakfastReview_asseses' =
                    IF k = 2 THEN create_link(BreakfastReview_asseses, ReviewIDtest', LinkTarget(2), hid)
                    ELSE BreakfastReview_asseses
               /\ ServiceReview_rates' =
                    IF k = 3 THEN create_link(ServiceReview_rates, ReviewIDtest', LinkTarget(3), hid)
                    ELSE ServiceReview_rates
       /\ UNCHANGED <<session, submitted, history, inv_no, rrate, bfrate, srate,
                      ReviewType, rtype, bftype, stype, rate, rno, hid>>

\* GET/POST /feedback/success with form data `form`; `fail` says which
\* insert, if any, the database rejects (the create_* methods raise)
rreview(s, form, fail) ==
  LET user == current_user(s)
      cid == user.CID
      k == ReviewType
      active == k \in {1, 2, 3}
      SCounter == IF active /\ DescriptionField(k) \in DOMAIN form
                  THEN MatchCount(k, ReservationsOf(cid, inv_no)) ELSE 0
      Text == form[DescriptionField(k)]
      created == create_review(CategoryRate(k), Text, cid, inv_no)
  IN
  IF ~require_role(FeedbackRoles, user)
  THEN /\ resp' = unauth(s, "success")
       /\ UNCHANGED <<session, submitted, history, globals, tables>>
  ELSE IF rtype = Undefined
  THEN \* print(str(rtype)) before any try block
       /\ resp' = Unhandled(s, "success", "rreview", "NameError")
       /\ UNCHANGED <<session, submitted, history, globals, tables>>
  ELSE IF SCounter = 0
  THEN /\ resp' = Response(s, "success", "rreview", 200, "feedback/index.html",
              <<"error, please review only for things that were actually ordered.">>, <<>>)
       /\ UNCHANGED <<session, submitted, history, globals, tables>>
  ELSE IF fail = "review"
  THEN /\ resp' = Unhandled(s, "success", "rreview", "create_review")
       /\ UNCHANGED <<session, submitted, history, globals, tables>>
  ELSE /\ writes_Review' = created
       /\ ReviewIDtest' \in Requery(created, CategoryRate(k), Text, inv_no)
       /\ IF fail = "link"
          THEN /\ resp' = Unhandled(s, "success", "rreview", "create_link")
               /\ UNCHANGED <<RoomReview_evaluates, BreakfastReview_asseses,
                              ServiceReview_rates>>
          ELSE /\ resp' = Response(s, "success", "rreview", 200, "feedback/success.html",
                                   <<>>, <<>>)
               /\ RoomReview_evaluates' =
                    IF k = 1 THEN create_link(RoomReview_evaluates, ReviewIDtest', LinkTarget(1), hid)
                    ELSE RoomReview_evaluates
               /\ BreakfastReview_asseses' =
                    IF k = 2 THEN create_link(BreakfastReview_asseses, ReviewIDtest', LinkTarget(2), hid)
                    ELSE BreakfastReview_asseses
               /\ ServiceReview_rates' =
                    IF k = 3 THEN create_link(ServiceReview_rates, ReviewIDtest', LinkTarget(3), hid)
                    ELSE ServiceReview_rates
       /\ UNCHANGED <<session, submitted, history, inv_no, rrate, bfrate, srate,
                      ReviewType, rtype, bftype, stype, rate, rno, hid>>

\* ------------------------------------------------------------- inputs
\* login forms: every email with every password, and forms lacking a field
LoginForms ==
  { [email |-> e, pw |-> p] : e \in Emails, p \in Passwords }
    \cup { [email |-> "ann@x"], [pw |-> "pwA"] }
\* the credentials each browser uses in the feedback specifications
OwnLogin == [s \in Sessions |->
               IF s = "s1" THEN [email |-> "ann@x", pw |-> "pwA"]
               ELSE [email |-> "bob@x", pw |-> "pwB"]]

InvoiceArgs == {"1", "2"}

\* rating payloads: the sub-types of invoice "1" or those of invoice "2"
SubTypes == { <<"single", "continental", "spa">>, <<"suite", "american", "laundry">> }
Rating(r, k, t) ==
  [radioValue |-> r, ReviewType |-> k, rootype |-> t[1], breakftype |-> t[2],
   servtype |-> t[3]]
FullRatings == { Rating("4", k, t) : k \in {1, 2, 3}, t \in SubTypes }
\* a payload with one key left out
Without(data, key) == [x \in (DOMAIN data) \ {key} |-> data[x]]
PartialRatings == { Without(Rating("5", 1, <<"single", "continental", "spa">>), key) :
                      key \in RatingKeys }
\* the payloads two users send concurrently
SharedRatings == { Rating("4", 2, <<"single", "continental", "spa">>),
                   Rating("5", 3, <<"single", "continental", "spa">>),
                   Rating("5", 2, <<"suite", "american", "laundry">>) }

LoadPayloads == { [RevType |-> 1], [other |-> 1] }

FullForm == [description |-> "nice room", description2 |-> "great food",
             description3 |-> "good spa"]
SubmitForms == { FullForm, [description2 |-> "great food"] }
Failures == {"none", "review", "link"}

\* ------------------------------------------------------------- behaviour
Init ==
  /\ session = [s \in Sessions |-> NoSession]
  /\ submitted = [s \in Sessions |-> NoSession]
  /\ picked = [e \in UserEmails |-> <<>>]
  /\ posted = [e \in UserEmails |-> <<>>]
  /\ ratedBy = <<>>
  /\ inv_no = "1"
  /\ rrate = "-1"
  /\ bfrate = "-1"
  /\ srate = "-1"
  /\ ReviewType = -1
  /\ rtype = Undefined
  /\ bftype = Undefined
  /\ stype = Undefined
  /\ rate = Undefined
  /\ rno = "1"
  /\ hid = "0"
  /\ ReviewIDtest = 0
  /\ writes_Review = <<>>
  /\ RoomReview_evaluates = <<>>
  /\ BreakfastReview_asseses = <<>>
  /\ ServiceReview_rates = <<>>
  /\ resp = Response("s1", "", "", 0, "", <<>>, <<>>)

\* the requests that do not depend on the workflow inputs
AuthNext(S) ==
  \/ \E s \in S : logout(s)
  \/ \E s \in S : view_dash(s)
  \/ \E s \in S : feedback(s)
  \/ \E s \in S, d \in LoadPayloads : get_reserv(s, d)

\* Spec: both browsers, every login form, one input per workflow request
Next ==
  \/ \E s \in Sessions, m \in {"GET", "POST"}, f \in LoginForms : login(s, m, f)
  \/ AuthNext(Sessions)
  \/ \E s \in Sessions : pick_res(s, "1")
  \/ \E s \in Sessions : get_rating_and_global(s, Rating("4", 2, <<"single", "continental", "spa">>))
  \/ \E s \in Sessions :
        Len(writes_Review) < MaxReviews /\ rreview(s, FullForm, "none")

Spec == Init /\ [][Next]_vars

\* SpecFlow: one browser, one user, every workflow input
NextFlow ==
  \/ login("s1", "POST", OwnLogin["s1"])
  \/ \E id \in InvoiceArgs : pick_res("s1", id)
  \/ \E d \in FullRatings \cup PartialRatings : get_rating_and_global("s1", d)
  \/ \E f \in SubmitForms, x \in Failures :
        Len(writes_Review) < MaxFlowReviews /\ rreview("s1", f, x)

SpecFlow == Init /\ [][NextFlow]_vars

\* SpecShared: two browsers, two users, requests interleaved in any order
NextShared ==
  \/ \E s \in Sessions : login(s, "POST", OwnLogin[s])
  \/ \E s \in Sessions, id \in InvoiceArgs : pick_res(s, id)
  \/ \E s \in Sessions, d \in SharedRatings : get_rating_and_global(s, d)
  \/ \E s \in Sessions :
        Len(writes_Review) < MaxSharedReviews /\ rreview(s, FullForm, "none")

SpecShared == Init /\ [][NextShared]_vars

\* ------------------------------------------------------------- properties
\* what the routes declare, written down independently of require_role
FeedbackRoutes == {"feedback", "pick_res", "rating", "load_Res", "success"}
GatedRoutes == FeedbackRoutes \cup {"admin-dashboard"}
PermittedRoles(route) ==
  IF route = "admin-dashboard" THEN {"admin"} ELSE {"admin", "manager", "customer"}
ViewOf(route) ==
  CASE route = "feedback" -> "feedback"
    [] route = "pick_res" -> "pick_res"
    [] route = "rating" -> "get_rating_and_global"
    [] route = "load_Res" -> "get_reserv"
    [] route = "success" -> "rreview"
    [] route = "admin-dashboard" -> "view_dash"
\* the row of the User table with an email
UserRow(email) == UserTable[CHOOSE i \in DOMAIN UserTable : UserTable[i].Email = email]

\* C1: a request to a require_role route by an authenticated session user
\* whose role is not in the route's permitted set (a list or a single name)
\* is answered 401 by the unauthorized handler and the view function does not
\* run (no workflow variable and no table changes); when the role is in the
\* permitted set the view function runs.
C1_RoleGate ==
  [][ (resp'.route \in GatedRoutes /\ session[resp'.s] # NoSession)
      => IF UserRow(session[resp'.s]).role \notin PermittedRoles(resp'.route)
         THEN /\ resp'.status = 401
              /\ resp'.page = "unauthorized.html"
              /\ resp'.handler = "unauth"
              /\ UNCHANGED <<globals, tables>>
         ELSE resp'.handler = ViewOf(resp'.route) ]_vars
\* a logged-in chef was refused on a role-list route
C1_Witness ==
  /\ resp.route = "pick_res"
  /\ session[resp.s] = "eve@x"
  /\ resp.status = 401
  /\ resp.handler = "unauth"

\* C2: while a session has no user (before a login, and after a logout until
\* the next successful login) every request of it to a gated feedback route
\* is answered with the 401 unauthorized page and the view function does not
\* run.
C2_AnonymousRefused ==
  [][ (resp'.route \in FeedbackRoutes /\ session[resp'.s] = NoSession)
      => /\ resp'.status = 401
         /\ resp'.page = "unauthorized.html"
         /\ resp'.handler = "unauth"
         /\ UNCHANGED <<session, globals, tables>> ]_vars
\* everybody has logged out again (ann had picked an invoice while logged in)
\* and a submit is refused
C2_Witness ==
  /\ \A s \in Sessions : session[s] = NoSession
  /\ picked["ann@x"] # <<>>
  /\ resp.route = "success"
  /\ resp.status = 401

\* the login form names an existing user and a password that is not the one
\* the stored hash was generated from
WrongPassword(form) ==
  /\ DOMAIN form = {"email", "pw"}
  /\ form.email \in UserEmails
  /\ UserRow(form.email).password # generate_password_hash(form.pw)

\* C3: a POST to /login of a not yet authenticated session with a password
\* that does not match the stored hash of the user with the submitted email
\* returns the login page with status 401 and creates no session.
C3_WrongPasswordRejected ==
  [][ \A s \in Sessions, f \in LoginForms :
        (/\ resp'.route = "login" /\ resp'.s = s
         /\ session[s] = NoSession /\ WrongPassword(f)
         /\ login(s, "POST", f))
        => /\ resp'.status = 401
           /\ resp'.page = "login.html"
           /\ session'[s] = NoSession ]_vars
\* bob's email with ann's password was rejected
C3_Witness ==
  /\ resp.route = "login"
  /\ resp.status = 401
  /\ resp.flash = <<"Unable to login user", "bob@x">>
  /\ session[resp.s] = NoSession

\* C4: from a successful login until the logout of that session, the
\* session's identity is the submitted email and the user loaded for a request
\* of the session is the User row with that email.
C4_SessionIdentity ==
  \A s \in Sessions :
    submitted[s] # NoSession
    => /\ session[s] = submitted[s]
       /\ submitted[s] \in UserEmails
       /\ current_user(s) = UserRow(submitted[s])
\* bob logged in and a later request of his session ran as bob
C4_Witness ==
  /\ submitted[resp.s] = "bob@x"
  /\ resp.route = "pick_res"
  /\ resp.handler = "pick_res"
  /\ picked["bob@x"] # <<>>

\* ---- the feedback workflow
\* the view function of /feedback/success runs for a request of session s
SubmitRuns(s) ==
  /\ session[s] # NoSession
  /\ UserRow(session[s]).role \in PermittedRoles("success")
\* invoice inv has a line item of category k with sub-type t: the room of the
\* reservation (k = 1), a breakfast item (k = 2), a service item (k = 3)
Ordered(k, inv, t) ==
  CASE k = 1 -> \E i \in DOMAIN Reservation, j \in DOMAIN Room :
                  /\ Reservation[i].InvoiceNo = inv
                  /\ Room[j].HotelID = Reservation[i].HotelID
                  /\ Room[j].Room_no = Reservation[i].Room_no
                  /\ Room[j].Type = t
    [] k = 2 -> \E j \in DOMAIN Inc_Breakfast :
                  Inc_Breakfast[j].InvoiceNo = inv /\ Inc_Breakfast[j].BType = t
    [] k = 3 -> \E j \in DOMAIN Cont_Service :
                  Cont_Service[j].InvoiceNo = inv /\ Cont_Service[j].sType = t
OwnsInvoice(user, inv) ==
  \E i \in DOMAIN Reservation :
    Reservation[i].InvoiceNo = inv /\ Reservation[i].CID = user.CID
StoredSubType(k) == CASE k = 1 -> rtype [] k = 2 -> bftype [] k = 3 -> stype
PostedSubType(d) ==
  CASE d.ReviewType = 1 -> d.rootype [] d.ReviewType = 2 -> d.breakftype
    [] d.ReviewType = 3 -> d.servtype
CommentField(k) ==
  CASE k = 1 -> "description" [] k = 2 -> "description2" [] k = 3 -> "description3"
LinkTable(k) ==
  CASE k = 1 -> RoomReview_evaluates [] k = 2 -> BreakfastReview_asseses
    [] k = 3 -> ServiceReview_rates
Last(rows) == rows[Len(rows)]
NotOrdered == <<"error, please review only for things that were actually ordered.">>

\* C5: when submit runs with an active category whose stored sub-type matches
\* no line item of the selected invoice, it reports the "review only for
\* things that were actually ordered" error and creates no Review row and no
\* link row.
C5_NotOrderedRejected ==
  [][ (/\ resp'.route = "success"
       /\ SubmitRuns(resp'.s)
       /\ ReviewType \in {1, 2, 3}
       /\ ~Ordered(ReviewType, inv_no, StoredSubType(ReviewType)))
      => /\ resp'.flash = NotOrdered
         /\ resp'.page = "feedback/index.html"
         /\ UNCHANGED tables ]_vars
\* a breakfast type that invoice "1" does not include was submitted and refused
C5_Witness ==
  /\ resp.route = "success"
  /\ resp.flash = NotOrdered
  /\ ReviewType = 2
  /\ inv_no = "1"
  /\ bftype = "american"
  /\ ~Ordered(ReviewType, inv_no, StoredSubType(ReviewType))
  /\ writes_Review = <<>>

\* C6: when submit runs with an active category whose stored sub-type matches
\* a line item of the selected invoice (here: for the invoice's owner, with
\* the category's comment field in the form and both inserts accepted), it
\* creates exactly one Review row and exactly one link row of the active
\* category, and the link carries the id of the Review created by this
\* submit, also when an equal earlier Review exists.
C6_OneReviewOneOwnLink ==
  [][ \A s \in Sessions, f \in SubmitForms :
        (/\ resp'.route = "success" /\ resp'.s = s
         /\ SubmitRuns(s)
         /\ ReviewType \in {1, 2, 3}
         /\ Ordered(ReviewType, inv_no, StoredSubType(ReviewType))
         /\ OwnsInvoice(UserRow(session[s]), inv_no)
         /\ CommentField(ReviewType) \in DOMAIN f
         /\ rreview(s, f, "none"))
        => /\ Len(writes_Review') = Len(writes_Review) + 1
           /\ \A j \in {1, 2, 3} :
                Len(LinkTable(j)') = Len(LinkTable(j)) + (IF j = ReviewType THEN 1 ELSE 0)
           /\ Last(LinkTable(ReviewType)').ReviewID = Last(writes_Review').ReviewID ]_vars

C8_SubmitUsesLatestRating ==
  [][ (/\ resp'.route = "success"
       /\ resp'.page = "feedback/success.html"
       /\ ratedBy # <<>>)
      => (posted[ratedBy[1]] # <<>>
          => LET d == posted[ratedBy[1]][1]
                 k == d.ReviewType
             IN  /\ Len(writes_Review') = Len(writes_Review) + 1
                 /\ Last(writes_Review').CID = UserRow(session[resp'.s]).CID
                 /\ Len(LinkTable(k)') = Len(LinkTable(k)) + 1
                 /\ k \in {2, 3} => Last(LinkTable(k)').Target = PostedSubType(d)) ]_vars
\* A posted a rating, B posted another one, A's submit persisted B's values
C8_Witness ==
  /\ resp.route = "success"
  /\ resp.page = "feedback/success.html"
  /\ ratedBy # <<>>
  /\ ratedBy[1] # session[resp.s]
  /\ posted[session[resp.s]] # <<>>
  /\ posted[ratedBy[1]] # <<>>
  /\ Len(writes_Review) = 1
  /\ LET mine == posted[session[resp.s]][1]
         theirs == posted[ratedBy[1]][1]
     IN  /\ writes_Review[1].CID = UserRow(session[resp.s]).CID
         /\ writes_Review[1].Rating = theirs.radioValue
         /\ writes_Review[1].Rating # mine.radioValue
         /\ theirs.ReviewType # mine.ReviewType
         /\ Len(LinkTable(theirs.ReviewType)) = 1
         /\ Len(LinkTable(mine.ReviewType)) = 0

\* C9: no request to a feedback view function ends with an exception that
\* leaves the function.
C9_NoEscapingException ==
  resp.route \in FeedbackRoutes => resp.error = ""

\* the ids of the persisted Review rows
ReviewIDs == { writes_Review[i].ReviewID : i \in DOMAIN writes_Review }

\* C10: every persisted link row carries the id of a persisted Review row,
\* never the initial placeholder id.
C10_LinkReferencesReview ==
  \A k \in {1, 2, 3} : \A i \in DOMAIN LinkTable(k) :
    /\ LinkTable(k)[i].ReviewID \in ReviewIDs
    /\ LinkTable(k)[i].ReviewID # 0
\* a room link exists
C10_Witness ==
  /\ Len(RoomReview_evaluates) = 1
  /\ Len(writes_Review) = 1
  /\ RoomReview_evaluates[1].ReviewID = writes_Review[1].ReviewID

\* the workflow state a submit reads
workflow == <<inv_no, rrate, bfrate, srate, ReviewType, rtype, bftype, stype, rno, hid>>
\* the fields two Review rows share when one duplicates the other
ReviewData(r) == <<r.Rating, r.TextComment, r.CID, r.InvoiceNo>>

\* C11: submit is not idempotent and resets nothing: a submit that directly
\* follows a successful submit of the same session, with the workflow state
\* as the first one left it and the same comment, succeeds again, leaves the
\* workflow state as it was, and adds a second Review row with the rating,
\* text, customer and invoice of the first and a second link row.
C11_ResubmitDuplicates ==
  [][ \A s \in Sessions, f \in SubmitForms :
        (/\ resp.route = "success" /\ resp.page = "feedback/success.html" /\ resp.s = s
         /\ resp'.route = "success" /\ resp'.s = s
         /\ CommentField(ReviewType) \in DOMAIN f
         /\ f[CommentField(ReviewType)] = Last(writes_Review).TextComment
         /\ rreview(s, f, "none"))
        => /\ resp'.page = "feedback/success.html"
           /\ UNCHANGED workflow
           /\ Len(writes_Review') = Len(writes_Review) + 1
           /\ ReviewData(Last(writes_Review')) = ReviewData(Last(writes_Review))
           /\ Last(writes_Review').ReviewID # Last(writes_Review).ReviewID
           /\ Len(LinkTable(ReviewType)') = Len(LinkTable(ReviewType)) + 1 ]_vars
\* two equal Reviews of invoice "1" and two breakfast links exist
C11_Witness ==
  /\ resp.route = "success"
  /\ resp.page = "feedback/success.html"
  /\ Len(writes_Review) = 2
  /\ ReviewData(writes_Review[1]) = ReviewData(writes_Review[2])
  /\ writes_Review[1].ReviewID # writes_Review[2].ReviewID
  /\ Len(BreakfastReview_asseses) = 2

\* C12: the link row created by a successful submit names the rated entity
\* by its verified type: the room type of the reviewed reservation's room for
\* a room review, the breakfast type for a breakfast review, the service type
\* for a service review.
C12_LinkRecordsType ==
  [][ (/\ resp'.route = "success"
       /\ resp'.page = "feedback/success.html"
       /\ ReviewType \in {1, 2, 3})
      => /\ Len(LinkTable(ReviewType)') = Len(LinkTable(ReviewType)) + 1
         /\ Ordered(ReviewType, inv_no, StoredSubType(ReviewType))
         /\ Last(LinkTable(ReviewType)').Target = StoredSubType(ReviewType) ]_vars

\* the stored rating of a category, the stored ratings of the other two
StoredRate(k) == CASE k = 1 -> rrate [] k = 2 -> bfrate [] k = 3 -> srate
RatingPayloads == FullRatings \cup PartialRatings \cup SharedRatings

\* C13: a rating request that succeeds with ReviewType k in {1,2,3} stores
\* radioValue as the rating of category k, makes k the active category,
\* stores the three posted sub-types, and leaves the ratings of the other two
\* categories, the selected invoice, the room number and the hotel id as
\* they were.
C13_RatingFrame ==
  [][ \A s \in Sessions, d \in RatingPayloads :
        (/\ resp'.route = "rating" /\ resp'.status = 200 /\ resp'.s = s
         /\ get_rating_and_global(s, d)
         /\ d.ReviewType \in {1, 2, 3})
        => /\ StoredRate(d.ReviewType)' = d.radioValue
           /\ ReviewType' = d.ReviewType
           /\ rtype' = d.rootype /\ bftype' = d.breakftype /\ stype' = d.servtype
           /\ \A j \in {1, 2, 3} \ {d.ReviewType} : StoredRate(j)' = StoredRate(j)
           /\ UNCHANGED <<inv_no, rno, hid>> ]_vars
\* a breakfast rating was stored after a room rating and two pick_res requests
C13_Witness ==
  /\ resp.route = "rating"
  /\ resp.status = 200
  /\ ReviewType = 2
  /\ bfrate = "4"
  /\ rrate = "4"
  /\ srate = "-1"
  /\ bftype = "american"
  /\ inv_no = "2"
  /\ rno = "101"

\* C14: a load_Res request changes no workflow variable (selected invoice,
\* ratings, active category, sub-types, room number, hotel id) and no table,
\* whatever the payload and the user, whether it answers with the list, with
\* "Error" or with the unauthorized page.
C14_LoadResReadsOnly ==
  [][ resp'.route = "load_Res" => UNCHANGED <<globals, tables>> ]_vars
\* load_Res answered "Error" to bob while ann's invoice was selected and a
\* Review existed
C14_Witness ==
  /\ resp.route = "load_Res"
  /\ resp.status = 500
  /\ session[resp.s] = "bob@x"
  /\ hid = "10"
  /\ ReviewType = 2
  /\ Len(writes_Review) = 1

\* C15: a pick_res request that reaches the view function stores the
\* requested invoice number as the selected invoice whether or not the
\* session user has a reservation with that invoice; the stored room number
\* and hotel id become those of the user's reservation with that invoice when
\* one exists and stay as they were otherwise; ratings, active category and
\* sub-types are left unchanged.
C15_PickResFrame ==
  [][ \A id \in InvoiceArgs :
        (/\ resp'.route = "pick_res" /\ resp'.handler = "pick_res"
         /\ picked'[session[resp'.s]] = <<id>>)
        => LET u == UserRow(session[resp'.s])
               own == { i \in DOMAIN Reservation :
                          Reservation[i].InvoiceNo = id /\ Reservation[i].CID = u.CID }
           IN  /\ inv_no' = id
               /\ IF own = {}
                  THEN UNCHANGED <<rno, hid>>
                  ELSE \E i \in own : /\ rno' = Reservation[i].Room_no
                                      /\ hid' = Reservation[i].HotelID
               /\ UNCHANGED <<rrate, bfrate, srate, ReviewType, rtype, bftype, stype>> ]_vars
\* ann selected bob's invoice: the invoice is stored, room and hotel are still
\* those of her own reservation
C15_Witness ==
  /\ resp.route = "pick_res"
  /\ resp.handler = "pick_res"
  /\ session[resp.s] = "ann@x"
  /\ inv_no = "2"
  /\ rno = "101"
  /\ hid = "10"
  /\ ReviewType = 2

\* C16: submit is not transactional: when the link insert fails after the
\* Review insert, the new Review row stays in the table, no link row is added
\* by that request (none refers to the new Review), and the request inserts
\* nothing a second time.
C16_NoRollback ==
  [][ (resp'.route = "success" /\ resp'.error = "create_link")
      => /\ Len(writes_Review') = Len(writes_Review) + 1
         /\ SubSeq(writes_Review', 1, Len(writes_Review)) = writes_Review
         /\ UNCHANGED <<RoomReview_evaluates, BreakfastReview_asseses, ServiceReview_rates>>
         /\ \A k \in {1, 2, 3} : \A i \in DOMAIN LinkTable(k) :
              LinkTable(k)[i].ReviewID # Last(writes_Review').ReviewID ]_vars
\* a Review row without any link row is left behind
C16_Witness ==
  /\ resp.route = "success"
  /\ resp.error = "create_link"
  /\ Len(writes_Review) = 1
  /\ RoomReview_evaluates = <<>>
  /\ BreakfastReview_asseses = <<>>
  /\ ServiceReview_rates = <<>>

\* C17: every POST to /login is answered with a redirect or with the login
\* page and status 401, also when no User row has the submitted email, and
\* in that case the request creates no session.
C17_LoginPostAnswers ==
  [][ \A s \in Sessions, f \in LoginForms :
        (/\ resp'.route = "login" /\ resp'.s = s
         /\ login(s, "POST", f))
        => /\ \/ resp'.status = 302
              \/ resp'.status = 401 /\ resp'.page = "login.html"
           /\ ("email" \in DOMAIN f /\ f.email \notin UserEmails)
                => UNCHANGED session ]_vars

\* C18: whatever the interleaving of the users' requests, a Review row that a
\* submit creates carries the customer id of the session user of that submit
\* and the invoice number of a reservation of that same user; selecting
\* another user's invoice never gets a Review recorded for it.
C18_ReviewOfOwnInvoice ==
  [][ Len(writes_Review') > Len(writes_Review)
      => LET u == UserRow(session[resp'.s])
             new == Last(writes_Review')
         IN  /\ resp'.route = "success"
             /\ session[resp'.s] # NoSession
             /\ new.CID = u.CID
             /\ \E i \in DOMAIN Reservation :
                  /\ Reservation[i].InvoiceNo = new.InvoiceNo
                  /\ Reservation[i].CID = u.CID ]_vars
\* ann had selected bob's invoice, bob then selected ann's, and ann's submit
\* recorded a Review for her own invoice
C18_Witness ==
  /\ resp.route = "success"
  /\ session[resp.s] = "ann@x"
  /\ picked["ann@x"] = <<"2">>
  /\ picked["bob@x"] = <<"1">>
  /\ Len(writes_Review) = 1
  /\ writes_Review[1].CID = "1"
  /\ writes_Review[1].InvoiceNo = "1"

\* the reservation rows with an invoice number
ReservationOfInvoice(inv) == { i \in DOMAIN Reservation : Reservation[i].InvoiceNo = inv }

\* C19: whatever the sequence of the users' requests, the link row a
\* successful submit creates carries the hotel id of the reservation named by
\* the new Review's invoice, and a room link carries that reservation's room
\* number; a hotel id stored for another invoice is never used.
C19_LinkOfReviewedReservation ==
  [][ (resp'.route = "success" /\ resp'.page = "feedback/success.html")
      => LET new == Last(writes_Review')
             link == Last(LinkTable(ReviewType)')
         IN  \E i \in ReservationOfInvoice(new.InvoiceNo) :
               /\ link.HotelID = Reservation[i].HotelID
               /\ ReviewType = 1 => link.Target = Reservation[i].Room_no ]_vars

\* C20: a rating request answered with "Error" and status 500 (a key of the
\* JSON body is missing) leaves the workflow state as it was: no stored
\* rating, active category or sub-type changes, so no later submit persists
\* a rating that came with a failed rating request.
C20_FailedRatingStoresNothing ==
  [][ (resp'.route = "rating" /\ resp'.status = 500) => UNCHANGED workflow ]_vars

====
